---------------------------- MODULE Spec2Model ----------------------------
(***************************************************************************)
(* State-machine model of ga::algorithm (src/include/ga/type.hpp): the     *)
(* constructor, iterate() unrolled along its while loop, the mutable       *)
(* elite_count() accessor and sort_population().                           *)
(*                                                                         *)
(* The user problem is the environment.  Its single-evaluation shape       *)
(* returns one fitness per individual; its multi-evaluation shape is a     *)
(* batch call that appends any number of fitnesses and receives the        *)
(* population by mutable reference, so it may also resize it.  Generator   *)
(* draws are nondeterministic choices.  Sequences are 1-based here, the    *)
(* vectors of the source 0-based.                                          *)
(***************************************************************************)
EXTENDS Integers, Sequences, FiniteSets, TLC

\* ------------------------------------------------------------------ bounds
MaxN == 2
MaxArity == 3
\* Offspring the buffer can hold before push_back fails with std::bad_alloc.
MaxAlloc == 3

\* Three genotypes, two of which share a fitness.
Genes == {0, 1, 2}
Arities == 1..MaxArity

VARIABLES
  pc,                \* "new" | "ctor_failed" | "idle" | "loop" (inside iterate)
  kind,              \* "single" | "multi": the contract the problem satisfies
  population_,       \* sequence of solutions [x, fitness, evals]
  next_population_,  \* sequence of buffered offspring [x, evals]
  next_fitness_,     \* sequence of fitness values
  elite_count_,
  expected_size,     \* iterate()'s local, captured before the loop
  size0,             \* history: size of the initial population
  result,            \* history: how the last public operation ended
  evaluate_calls,    \* history: evaluate invocations of the last operation
  children_returned, \* history: offspring returned by the last recombine call
  mutate_calls,      \* history: mutate calls made on that call's offspring
  thrown,            \* history: iterate() has thrown on this engine
  retried,           \* history: an operation was begun after iterate() threw
  appended,          \* history: fitnesses the last evaluation step appended
  evaluate_resized,  \* history: an evaluate call changed population_'s size
  recombine_calls,   \* history: recombine calls of the iterate() in progress
  individuals_given, \* history: size of the batch evaluate's first argument
  elites_given,      \* history: size of the batch evaluate's second argument
  draws,             \* selection: indexes drawn so far, in draw order
  parents            \* selection: genotypes the tournaments returned

vars == <<pc, kind, population_, next_population_, next_fitness_, elite_count_,
          expected_size, size0, result, evaluate_calls, children_returned,
          mutate_calls, thrown, retried, appended, evaluate_resized,
          recombine_calls, individuals_given, elites_given, draws, parents>>

Min(a, b) == IF a < b THEN a ELSE b

\* std::size_t: subtraction wraps.  The largest value lies beyond every size
\* that can be allocated.
SIZE_MAX == MaxAlloc + MaxN + 1

size_sub(a, b) == (a - b) % (SIZE_MAX + 1)

\* --------------------------------------------------------------- the problem
\* Fitness of one individual (lower is better); not injective, as a fitness
\* in general is not (every overweight knapsack scores 0.0).
evaluate(x) == x \div 2

\* In-place mutation; hit is the outcome of the generator draw it makes.
mutate(x, hit) == IF hit THEN (x + 1) % Cardinality(Genes) ELSE x

\* Offspring of two parents: the parents themselves, alternating.
recombine(a, b, arity) == [k \in 1..arity |-> IF k % 2 = 1 THEN a ELSE b]

\* ga::solution
solution(x, fitness, evals) == [x |-> x, fitness |-> fitness, evals |-> evals]

\* A buffered offspring; evals counts the single-contract evaluate calls
\* that received it.
offspring(x) == [x |-> x, evals |-> 0]

\* Variant of single_evaluated: every individual is handed to evaluate twice.
single_evaluated_twice(individuals) ==
  [i \in 1..Len(individuals) |->
     [individuals[i] EXCEPT !.evals = individuals[i].evals + 2]]

\* Single-evaluation contract: one evaluate call per individual, in order.
single_fitness(individuals) ==
  [i \in 1..Len(individuals) |-> evaluate(individuals[i].x)]

single_evaluated(individuals) ==
  [i \in 1..Len(individuals) |->
     [individuals[i] EXCEPT !.evals = individuals[i].evals + 1]]

\* Multi-evaluation contract: the batch call appends k fitnesses; a conforming
\* problem appends exactly Len(individuals).
multi_fitness(individuals, k) ==
  [i \in 1..k |-> IF i <= Len(individuals) THEN evaluate(individuals[i].x) ELSE 0]

\* What the batch call may do to the population it gets by reference.
Resizes == {"keep", "push", "pop"}

resized(pop, how) ==
  CASE how = "push" -> Append(pop, solution(0, 0, 0))
    [] how = "pop" -> SubSeq(pop, 1, Len(pop) - 1)
    [] OTHER -> pop

\* ------------------------------------------------------------ the algorithm
\* Variant of invalid_elite_count: elite_count equal to the size is accepted.
invalid_elite_count_above(ec, n) == ec > n

\* Constructor guard.
invalid_elite_count(ec, n) == ec >= n

\* binary_tournament for drawn indexes i then j.
binary_tournament(pop, i, j) ==
  IF pop[i].fitness < pop[j].fitness THEN pop[i].x ELSE pop[j].x

\* Every genotype a tournament over pop can return.
TournamentWinners(pop) ==
  {binary_tournament(pop, i, j) : i \in 1..Len(pop), j \in 1..Len(pop)}

\* The for loop over the children of one recombine call, from child k on:
\* mutate, push_back, break when the buffer is full.
RECURSIVE push_children(_, _, _, _, _)
push_children(buf, children, hits, k, target) ==
  IF k > Len(children)
  THEN [buf |-> buf, mutated |-> k - 1]
  ELSE LET buf2 == Append(buf, offspring(mutate(children[k], hits[k])))
       IN IF Len(buf2) = target
          THEN [buf |-> buf2, mutated |-> k]
          ELSE push_children(buf2, children, hits, k + 1, target)

\* The size check after the evaluation step of iterate().
size_changed(popLen, nextLen, fitLen, expected, ec) ==
  \/ popLen # expected
  \/ nextLen # size_sub(expected, ec)
  \/ fitLen # size_sub(expected, ec)

\* Variant of first_size_changed: only the fitness buffer is looked at.
first_size_changed_fitness_only(fitLen, n, popLen) == fitLen # n

\* The size check after the evaluation step of the constructor.
first_size_changed(fitLen, n, popLen) == fitLen # n \/ popLen > 0

\* Variant of assemble: the fitnesses are taken from the back.
assemble_reversed(individuals, fits) ==
  [i \in 1..Len(individuals) |->
     solution(individuals[i].x, fits[Len(individuals) + 1 - i],
              individuals[i].evals)]

\* Constructor: pair every individual with its fitness.
assemble(individuals, fits) ==
  [i \in 1..Len(individuals) |->
     solution(individuals[i].x, fits[i], individuals[i].evals)]

\* Variant of replace: the offspring are written from the first slot on.
replace_from_begin(pop, next, fits, ec) ==
  [i \in 1..Len(pop) |->
     IF i <= Len(next) THEN solution(next[i].x, fits[i], next[i].evals)
     ELSE pop[i]]

\* iterate(): overwrite the slots after the elite prefix.
replace(pop, next, fits, ec) ==
  [i \in 1..Len(pop) |->
     IF i <= ec THEN pop[i]
     ELSE solution(next[i - ec].x, fits[i - ec], next[i - ec].evals)]

\* std::partial_sort's contract on (begin, begin + ec, end): the first ec
\* places hold the ec smallest elements in ascending order, the order of the
\* rest (and the choice among equal elements) is unspecified.
partial_sorted(q, ec) ==
  /\ \A i \in 1..ec : \A j \in (i + 1)..Len(q) : ~(q[j].fitness < q[i].fitness)

\* Variant of sort_population: the sorted prefix is one element short.
sort_population_short(pop, ec) ==
  {q \in {[i \in 1..Len(pop) |-> pop[p[i]]] : p \in Permutations(1..Len(pop))} :
     partial_sorted(q, ec - 1)}

sort_population(pop, ec) ==
  {q \in {[i \in 1..Len(pop) |-> pop[p[i]]] : p \in Permutations(1..Len(pop))} :
     partial_sorted(q, ec)}

\* --------------------------------------------------------------------- Init
Init ==
  /\ pc = "new"
  /\ kind \in {"single", "multi"}
  /\ population_ = <<>>
  /\ next_population_ = <<>>
  /\ next_fitness_ = <<>>
  /\ elite_count_ = 0
  /\ expected_size = 0
  /\ size0 = 0
  /\ result = "none"
  /\ evaluate_calls = 0
  /\ children_returned = 0
  /\ mutate_calls = 0
  /\ thrown = FALSE
  /\ retried = FALSE
  /\ appended = 0
  /\ evaluate_resized = FALSE
  /\ recombine_calls = 0
  /\ individuals_given = 0
  /\ elites_given = 0
  /\ draws = <<>>
  /\ parents = <<>>

InitialPopulations == UNION {[1..n -> Genes] : n \in 0..MaxN}

\* What the evaluation step of the constructor can yield: the fitnesses, the
\* population_ member afterwards, the evaluated individuals, the call count.
FirstEvalOutcomes(individuals) ==
  IF kind = "single"
  THEN {[fit |-> single_fitness(individuals), pop |-> <<>>,
         buf |-> single_evaluated(individuals), calls |-> Len(individuals),
         given |-> 0, elites |-> 0]}
  ELSE {[fit |-> multi_fitness(individuals, k),
         pop |-> IF push THEN <<solution(0, 0, 0)>> ELSE <<>>,
         buf |-> individuals, calls |-> 1,
         given |-> Len(individuals), elites |-> 0] :
          k \in {c \in (Len(individuals) - 1)..(Len(individuals) + 1) : c >= 0},
          push \in BOOLEAN}

\* algorithm::algorithm rejecting its arguments.
ConstructInvalid(initial, ec) ==
  /\ pc = "new"
  /\ invalid_elite_count(ec, Len(initial))
  /\ elite_count_' = ec
  /\ size0' = Len(initial)
  /\ pc' = "ctor_failed"
  /\ result' = "invalid_argument"
  /\ UNCHANGED <<kind, population_, next_population_, next_fitness_, expected_size,
                 evaluate_calls, children_returned, mutate_calls, thrown, retried,
                 appended, evaluate_resized, recombine_calls, individuals_given,
                 elites_given, draws, parents>>

\* algorithm::algorithm throwing after the evaluation step.
ConstructThrow(initial, ec) ==
  /\ pc = "new"
  /\ ~invalid_elite_count(ec, Len(initial))
  /\ \E o \in FirstEvalOutcomes([i \in 1..Len(initial) |-> offspring(initial[i])]) :
       /\ first_size_changed(Len(o.fit), Len(initial), Len(o.pop))
       /\ evaluate_calls' = o.calls
       /\ appended' = Len(o.fit)
       /\ individuals_given' = o.given
       /\ elites_given' = o.elites
       /\ evaluate_resized' = (Len(o.pop) > 0)
  /\ elite_count_' = ec
  /\ size0' = Len(initial)
  /\ pc' = "ctor_failed"
  /\ result' = "ctor_runtime_error"
  /\ UNCHANGED <<kind, population_, next_population_, next_fitness_, expected_size,
                 children_returned, mutate_calls, thrown, retried,
                 recombine_calls, draws, parents>>

\* algorithm::algorithm completing.
Construct(initial, ec) ==
  /\ pc = "new"
  /\ ~invalid_elite_count(ec, Len(initial))
  /\ \E o \in FirstEvalOutcomes([i \in 1..Len(initial) |-> offspring(initial[i])]) :
       /\ ~first_size_changed(Len(o.fit), Len(initial), Len(o.pop))
       /\ population_' \in sort_population(assemble(o.buf, o.fit), ec)
       /\ evaluate_calls' = o.calls
       /\ appended' = Len(o.fit)
       /\ individuals_given' = o.given
       /\ elites_given' = o.elites
       /\ evaluate_resized' = (Len(o.pop) > 0)
  /\ elite_count_' = ec
  /\ size0' = Len(initial)
  /\ pc' = "idle"
  /\ result' = "constructed"
  /\ UNCHANGED <<kind, next_population_, next_fitness_, expected_size,
                 children_returned, mutate_calls, thrown, retried,
                 recombine_calls, draws, parents>>

\* iterate() up to the while loop.  A client calls iterate() on an engine that
\* has thrown at most once more.
IterateCall ==
  /\ pc = "idle"
  /\ thrown => ~retried
  /\ retried' = thrown
  /\ pc' = "loop"
  /\ expected_size' = Len(population_)
  /\ evaluate_calls' = 0
  /\ appended' = 0
  /\ children_returned' = 0
  /\ mutate_calls' = 0
  /\ recombine_calls' = 0
  /\ individuals_given' = 0
  /\ elites_given' = 0
  /\ UNCHANGED <<kind, population_, next_population_, next_fitness_, elite_count_,
                 size0, result, thrown, evaluate_resized, draws, parents>>

loop_condition ==
  Len(next_population_) < size_sub(expected_size, elite_count_)

\* One pass of the while loop.
LoopBody ==
  /\ pc = "loop"
  /\ loop_condition
  /\ \E parent1 \in TournamentWinners(population_),
        parent2 \in TournamentWinners(population_),
        arity \in Arities :
       LET target == size_sub(expected_size, elite_count_)
           kept == Min(arity, target - Len(next_population_))
       IN /\ Len(next_population_) + kept <= MaxAlloc
          /\ \E hits \in [1..kept -> BOOLEAN] :
               LET r == push_children(next_population_,
                                      recombine(parent1, parent2, arity),
                                      hits, 1, target)
               IN /\ next_population_' = r.buf
                  /\ children_returned' = arity
                  /\ mutate_calls' = r.mutated
  /\ recombine_calls' = recombine_calls + 1
  /\ UNCHANGED <<pc, kind, population_, next_fitness_, elite_count_, expected_size,
                 size0, result, evaluate_calls, thrown, retried, appended,
                 evaluate_resized, individuals_given, elites_given, draws, parents>>

\* A pass of the while loop in which push_back runs out of memory: the
\* children before it are buffered, the child it was given has been mutated,
\* and std::bad_alloc leaves iterate().
IterateBadAlloc ==
  /\ pc = "loop"
  /\ loop_condition
  /\ \E parent1 \in TournamentWinners(population_),
        parent2 \in TournamentWinners(population_),
        arity \in Arities :
       LET target == size_sub(expected_size, elite_count_)
           kept == Min(arity, target - Len(next_population_))
           room == MaxAlloc - Len(next_population_)
           children == recombine(parent1, parent2, arity)
       IN /\ Len(next_population_) + kept > MaxAlloc
          /\ \E hits \in [1..room -> BOOLEAN] :
               next_population_' = next_population_ \o
                 [k \in 1..room |-> offspring(mutate(children[k], hits[k]))]
  /\ children_returned' = 0
  /\ mutate_calls' = 0
  /\ thrown' = TRUE
  /\ pc' = "idle"
  /\ result' = "bad_alloc"
  /\ expected_size' = 0
  /\ recombine_calls' = 0
  /\ UNCHANGED <<kind, population_, next_fitness_, elite_count_, size0,
                 evaluate_calls, retried, appended, evaluate_resized,
                 individuals_given, elites_given, draws, parents>>

\* What the evaluation step of iterate() can yield.
EvalOutcomes ==
  IF kind = "single"
  THEN {[fit |-> next_fitness_ \o single_fitness(next_population_),
         pop |-> population_,
         buf |-> single_evaluated(next_population_),
         calls |-> Len(next_population_),
         resized |-> FALSE,
         given |-> 0, elites |-> 0]}
  ELSE {[fit |-> next_fitness_ \o multi_fitness(next_population_, k),
         pop |-> resized(population_, how),
         buf |-> next_population_,
         calls |-> 1,
         resized |-> how # "keep",
         given |-> Len(next_population_), elites |-> Len(population_)] :
          k \in {c \in (Len(next_population_) - 1)..(Len(next_population_) + 1) :
                   c >= 0},
          how \in {h \in Resizes : h = "pop" => Len(population_) >= 1}}

\* iterate(): evaluation step, then the size check throws.
IterateThrow ==
  /\ pc = "loop"
  /\ ~loop_condition
  /\ \E o \in EvalOutcomes :
       /\ size_changed(Len(o.pop), Len(o.buf), Len(o.fit), expected_size,
                       elite_count_)
       /\ population_' = o.pop
       /\ next_population_' = o.buf
       /\ next_fitness_' = o.fit
       /\ evaluate_calls' = o.calls
       /\ appended' = Len(o.fit) - Len(next_fitness_)
       /\ evaluate_resized' = (evaluate_resized \/ o.resized)
       /\ individuals_given' = o.given
       /\ elites_given' = o.elites
  /\ thrown' = TRUE
  /\ pc' = "idle"
  /\ result' = "runtime_error"
  /\ expected_size' = 0
  /\ children_returned' = 0
  /\ mutate_calls' = 0
  /\ recombine_calls' = 0
  /\ UNCHANGED <<kind, elite_count_, size0, retried, draws, parents>>

\* iterate(): evaluation step, replacement, clear, sort_population.
IterateReturn ==
  /\ pc = "loop"
  /\ ~loop_condition
  /\ \E o \in EvalOutcomes :
       /\ ~size_changed(Len(o.pop), Len(o.buf), Len(o.fit), expected_size,
                        elite_count_)
       /\ population_' \in
            sort_population(replace(o.pop, o.buf, o.fit, elite_count_), elite_count_)
       /\ evaluate_calls' = o.calls
       /\ appended' = Len(o.fit) - Len(next_fitness_)
       /\ evaluate_resized' = (evaluate_resized \/ o.resized)
       /\ individuals_given' = o.given
       /\ elites_given' = o.elites
  /\ next_population_' = <<>>
  /\ next_fitness_' = <<>>
  /\ pc' = "idle"
  /\ result' = "iterated"
  /\ expected_size' = 0
  /\ children_returned' = 0
  /\ mutate_calls' = 0
  /\ recombine_calls' = 0
  /\ UNCHANGED <<kind, elite_count_, size0, thrown, retried, draws, parents>>

\* A write through the reference elite_count() returns; nothing checks the
\* value.  Every value above the population size makes size() - elite_count_
\* wrap in iterate(); one such value stands for all of them.
SetEliteCount(v) ==
  /\ pc = "idle"
  /\ thrown => ~retried
  /\ retried' = thrown
  /\ elite_count_' = v
  /\ result' = "elite_written"
  /\ UNCHANGED <<pc, kind, population_, next_population_, next_fitness_,
                 expected_size, size0, evaluate_calls, children_returned,
                 mutate_calls, thrown, appended, evaluate_resized,
                 recombine_calls, individuals_given, elites_given, draws, parents>>

Next ==
  \/ \E initial \in InitialPopulations, ec \in 0..MaxN : ConstructInvalid(initial, ec)
  \/ \E initial \in InitialPopulations, ec \in 0..MaxN : ConstructThrow(initial, ec)
  \/ \E initial \in InitialPopulations, ec \in 0..MaxN : Construct(initial, ec)
  \/ IterateCall
  \/ LoopBody
  \/ IterateBadAlloc
  \/ IterateThrow
  \/ IterateReturn
  \/ \E v \in 0..(Len(population_) + 1) : SetEliteCount(v)

Spec == Init /\ [][Next]_vars

\* ---------------------------------------------------------------- selection
\* The selection at the head of the while body, draw by draw, over every
\* population a constructor can leave (single-evaluation problem).
\* Values std::uniform_int_distribution(0, n - 1) can return, 1-based.
indexes(n) == 1..n

\* Variant of tournament_draws: the second index is not drawn.
tournament_draws_once(i, j) == <<i>>

\* The draws one binary_tournament call makes, in order.
tournament_draws(i, j) == <<i, j>>

SelectionInit ==
  /\ pc = "select"
  /\ kind = "single"
  /\ \E initial \in InitialPopulations, ec \in 0..MaxN :
       LET individuals == [i \in 1..Len(initial) |-> offspring(initial[i])]
       IN /\ ~invalid_elite_count(ec, Len(initial))
          /\ population_ \in
               sort_population(assemble(single_evaluated(individuals),
                                        single_fitness(individuals)), ec)
          /\ elite_count_ = ec
          /\ size0 = Len(initial)
          /\ expected_size = Len(initial)
  /\ next_population_ = <<>>
  /\ next_fitness_ = <<>>
  /\ result = "constructed"
  /\ evaluate_calls = 0
  /\ children_returned = 0
  /\ mutate_calls = 0
  /\ thrown = FALSE
  /\ retried = FALSE
  /\ appended = 0
  /\ evaluate_resized = FALSE
  /\ recombine_calls = 0
  /\ individuals_given = 0
  /\ elites_given = 0
  /\ draws = <<>>
  /\ parents = <<>>

\* One binary_tournament() call: parent1's, then parent2's.
TournamentCall ==
  /\ pc = "select"
  /\ \E i \in indexes(Len(population_)), j \in indexes(Len(population_)) :
       /\ draws' = draws \o tournament_draws(i, j)
       /\ parents' = Append(parents, binary_tournament(population_, i, j))
  /\ pc' = IF Len(parents) = 1 THEN "recombine" ELSE "select"
  /\ UNCHANGED <<kind, population_, next_population_, next_fitness_, elite_count_,
                 expected_size, size0, result, evaluate_calls, children_returned,
                 mutate_calls, thrown, retried, appended, evaluate_resized,
                 recombine_calls, individuals_given, elites_given>>

\* problem_.recombine(parent1, parent2, generator_); the next pass selects anew.
RecombineCall ==
  /\ pc = "recombine"
  /\ \E arity \in Arities :
       children_returned' = Len(recombine(parents[1], parents[2], arity))
  /\ draws' = <<>>
  /\ parents' = <<>>
  /\ pc' = "select"
  /\ UNCHANGED <<kind, population_, next_population_, next_fitness_, elite_count_,
                 expected_size, size0, result, evaluate_calls, mutate_calls, thrown,
                 retried, appended, evaluate_resized, recombine_calls,
                 individuals_given, elites_given>>

SelectionNext ==
  \/ TournamentCall
  \/ RecombineCall

SelectionSpec == SelectionInit /\ [][SelectionNext]_vars

\* ------------------------------------------------------------- algorithm.hpp
\* The engine as src/include/ga/algorithm.hpp defines it: single-evaluation
\* problems only, the next generation buffered as solutions, no size check and
\* a read-only elite_count().
\* The for loop over the children of one recombine call, from child k on:
\* mutate, evaluate, push_back, break when the buffer is full.
RECURSIVE legacy_push_children(_, _, _, _, _)
legacy_push_children(buf, children, hits, k, target) ==
  IF k > Len(children)
  THEN [buf |-> buf, mutated |-> k - 1]
  ELSE LET child == mutate(children[k], hits[k])
           buf2 == Append(buf, solution(child, evaluate(child), 1))
       IN IF Len(buf2) = target
          THEN [buf |-> buf2, mutated |-> k]
          ELSE legacy_push_children(buf2, children, hits, k + 1, target)

\* std::move(next.begin(), next.end(), population_.begin() + elite_count_)
legacy_move(pop, next, ec) ==
  [i \in 1..Len(pop) |-> IF i <= ec THEN pop[i] ELSE next[i - ec]]

LegacyInit ==
  /\ Init
  /\ kind = "single"

LegacyConstructInvalid(initial, ec) ==
  /\ pc = "new"
  /\ invalid_elite_count(ec, Len(initial))
  /\ elite_count_' = ec
  /\ size0' = Len(initial)
  /\ pc' = "ctor_failed"
  /\ result' = "invalid_argument"
  /\ UNCHANGED <<kind, population_, next_population_, next_fitness_, expected_size,
                 evaluate_calls, children_returned, mutate_calls, thrown, retried,
                 appended, evaluate_resized, recombine_calls, individuals_given,
                 elites_given, draws, parents>>

LegacyConstruct(initial, ec) ==
  /\ pc = "new"
  /\ ~invalid_elite_count(ec, Len(initial))
  /\ LET individuals == [i \in 1..Len(initial) |-> offspring(initial[i])]
     IN population_' \in
          sort_population(assemble(single_evaluated(individuals),
                                   single_fitness(individuals)), ec)
  /\ evaluate_calls' = Len(initial)
  /\ elite_count_' = ec
  /\ size0' = Len(initial)
  /\ pc' = "idle"
  /\ result' = "constructed"
  /\ UNCHANGED <<kind, next_population_, next_fitness_, expected_size,
                 children_returned, mutate_calls, thrown, retried, appended,
                 evaluate_resized, recombine_calls, individuals_given,
                 elites_given, draws, parents>>

LegacyIterateCall ==
  /\ pc = "idle"
  /\ pc' = "loop"
  /\ expected_size' = Len(population_)
  /\ evaluate_calls' = 0
  /\ children_returned' = 0
  /\ mutate_calls' = 0
  /\ recombine_calls' = 0
  /\ UNCHANGED <<kind, population_, next_population_, next_fitness_, elite_count_,
                 size0, result, thrown, retried, appended, evaluate_resized,
                 individuals_given, elites_given, draws, parents>>

legacy_loop_condition ==
  Len(next_population_) < size_sub(Len(population_), elite_count_)

LegacyLoopBody ==
  /\ pc = "loop"
  /\ legacy_loop_condition
  /\ \E parent1 \in TournamentWinners(population_),
        parent2 \in TournamentWinners(population_),
        arity \in Arities :
       LET target == size_sub(Len(population_), elite_count_)
           kept == Min(arity, target - Len(next_population_))
       IN \E hits \in [1..kept -> BOOLEAN] :
            LET r == legacy_push_children(next_population_,
                                          recombine(parent1, parent2, arity),
                                          hits, 1, target)
            IN /\ next_population_' = r.buf
               /\ children_returned' = arity
               /\ mutate_calls' = r.mutated
               /\ evaluate_calls' = evaluate_calls + r.mutated
  /\ recombine_calls' = recombine_calls + 1
  /\ UNCHANGED <<pc, kind, population_, next_fitness_, elite_count_, expected_size,
                 size0, result, thrown, retried, appended, evaluate_resized,
                 individuals_given, elites_given, draws, parents>>

LegacyIterateReturn ==
  /\ pc = "loop"
  /\ ~legacy_loop_condition
  /\ population_' \in
       sort_population(legacy_move(population_, next_population_, elite_count_),
                       elite_count_)
  /\ next_population_' = <<>>
  /\ pc' = "idle"
  /\ result' = "iterated"
  /\ expected_size' = 0
  /\ children_returned' = 0
  /\ mutate_calls' = 0
  /\ recombine_calls' = 0
  /\ UNCHANGED <<kind, next_fitness_, elite_count_, size0, evaluate_calls, thrown,
                 retried, appended, evaluate_resized, individuals_given,
                 elites_given, draws, parents>>

LegacyNext ==
  \/ \E initial \in InitialPopulations, ec \in 0..MaxN :
       LegacyConstructInvalid(initial, ec)
  \/ \E initial \in InitialPopulations, ec \in 0..MaxN :
       LegacyConstruct(initial, ec)
  \/ LegacyIterateCall
  \/ LegacyLoopBody
  \/ LegacyIterateReturn

LegacySpec == LegacyInit /\ [][LegacyNext]_vars

\* ------------------------------------------------------------------- claims
constructed == pc \in {"idle", "loop"}

\* The step in which iterate() runs its evaluation step and then ends.
evaluation_step ==
  pc = "loop" /\ pc' = "idle" /\ result' \in {"iterated", "runtime_error"}

\* The last public operation was the constructor or an iterate() that returned.
settled == pc = "idle" /\ result \in {"constructed", "iterated"}

\* C1: population() has the length N of the initial population after
\* construction and after every iterate() call, whatever the recombine arity.
C1_PopulationLengthIsN ==
  pc = "idle" => Len(population_) = size0

\* C2: after construction and after every iterate() that returned, the first
\* elite_count solutions are in ascending fitness order and none of them is
\* worse than any solution behind it (the prefix is the true top-k).
C2_ElitePrefixIsTopK ==
  settled =>
    \A i \in 1..elite_count_ : \A j \in (i + 1)..Len(population_) :
      population_[i].fitness <= population_[j].fitness

C2_Witness ==
  /\ settled
  /\ result = "iterated"
  /\ elite_count_ = 1
  /\ Len(population_) >= 2
  /\ population_[1].fitness < population_[2].fitness

\* C3: a constructor call with elite_count >= the initial population's size
\* ends with invalid_argument, before any evaluate call, and creates no engine;
\* every engine that was created got elite_count < size.
C3_InvalidEliteCountRejected ==
  /\ (pc = "ctor_failed" /\ elite_count_ >= size0) =>
       /\ result = "invalid_argument"
       /\ evaluate_calls = 0
       /\ population_ = <<>>
  /\ result = "invalid_argument" => pc = "ctor_failed"
  /\ result = "constructed" => elite_count_ < size0

C3_Witness ==
  /\ pc = "ctor_failed"
  /\ result = "invalid_argument"
  /\ size0 = 0
  /\ elite_count_ = 1

\* C4: whenever the evaluation step of iterate() appends a number of fitnesses
\* different from the number of new individuals it was given (and leaves the
\* population's size alone), iterate() throws and the population is what it
\* was before the call.
C4_MismatchThrowsAndKeepsPopulation ==
  [][(/\ evaluation_step
      /\ appended' # expected_size - elite_count_
      /\ Len(population_') = Len(population_))
       => (result' = "runtime_error" /\ population_' = population_)]_vars

\* C6: one pass of the loop buffers the first offspring of the recombine call,
\* mutated and in returned order, as far as free slots remain, discards the
\* rest without raising an error, and never fills the buffer beyond
\* N - elite_count.
C6_Truncation ==
  [][(pc = "loop" /\ pc' = "loop") =>
       LET target == expected_size - elite_count_
           room == target - Len(next_population_)
           kept == Min(children_returned', room)
       IN /\ room >= 1
          /\ Len(next_population_') = Len(next_population_) + kept
          /\ Len(next_population_') <= target
          /\ ~loop_condition' <=> Len(next_population_') = target
          /\ \E p1 \in TournamentWinners(population_),
                p2 \in TournamentWinners(population_),
                hits \in [1..kept -> BOOLEAN] :
               next_population_' = next_population_ \o
                 [k \in 1..kept |->
                    offspring(mutate(recombine(p1, p2, children_returned')[k],
                                     hits[k]))]
          /\ result' = result
          /\ thrown' = thrown]_vars

\* C7: population() is sorted by fitness over its whole length after
\* construction and after every iterate() that returned.
C7_WholePopulationSorted ==
  settled =>
    \A i \in 1..(Len(population_) - 1) :
      population_[i].fitness <= population_[i + 1].fitness

\* C8: every offspring a recombine call returned has been passed to mutate
\* exactly once when the pass of the loop ends.
C8_MutateOncePerChild ==
  pc = "loop" => mutate_calls = children_returned

C10_EliteCountBelowN ==
  constructed => (0 <= elite_count_ /\ elite_count_ < size0)

\* C11: with every recombine call returning at least one offspring, the loop
\* of an iterate() makes at most N - elite_count recombine calls, and an
\* iterate() that has finished has returned or raised the fatal size error.
C11_LoopEndsWithinBound ==
  /\ pc = "loop" =>
       recombine_calls <= IF expected_size > elite_count_
                          THEN expected_size - elite_count_
                          ELSE 0
  /\ (pc = "idle" /\ result \notin {"constructed", "elite_written"}) =>
       result \in {"iterated", "runtime_error"}

\* C12: a tournament over drawn indexes i then j returns the genotype of the
\* solution with the strictly smaller fitness and, on a tie, the genotype of
\* the first-drawn solution i.
C12_TieKeepsFirstDrawn ==
  \A t \in 1..Len(parents) :
    (2 * t) \in DOMAIN draws =>
      LET i == draws[2 * t - 1]
          j == draws[2 * t]
      IN parents[t] = IF population_[j].fitness < population_[i].fitness
                      THEN population_[j].x
                      ELSE population_[i].x

\* C14: for a multi-evaluation problem the evaluation step of iterate() is one
\* batch call; its first argument is the whole buffer of N - elite_count
\* offspring and its second argument holds the elite prefix, elite_count
\* solutions.
C14_BatchEvaluateArguments ==
  [][(kind = "multi" /\ evaluation_step)
       => /\ evaluate_calls' = 1
          /\ individuals_given' = Len(next_population_)
          /\ individuals_given' = expected_size - elite_count_
          /\ elites_given' = elite_count_]_vars

\* C13: every tournament call makes exactly two index draws, both within the
\* population's index range, and leaves the population as it is; a recombine
\* call is made after exactly two tournament calls, that is four draws.
C13_TwoDrawsPerTournament ==
  [][/\ population_' = population_
     /\ Len(parents') = Len(parents) + 1 =>
          /\ Len(draws') = Len(draws) + 2
          /\ \A k \in (Len(draws) + 1)..Len(draws') :
               draws'[k] \in 1..Len(population_)
     /\ pc = "recombine" => (Len(parents) = 2 /\ Len(draws) = 4)
     /\ pc' = "recombine" => Len(parents') = 2]_vars

C13_Witness ==
  /\ pc = "recombine"
  /\ Len(draws) = 4
  /\ draws[1] # draws[2]
  /\ draws[3] # draws[4]
  /\ parents[1] # parents[2]

\* C15: while the loop of an iterate() is running no evaluate call of that
\* iterate() has been made and no buffered offspring has been evaluated: every
\* draw, recombine call and mutate call comes before the first evaluate call.
C15_NoEvaluateBeforeBufferFull ==
  pc = "loop" =>
    /\ evaluate_calls = 0
    /\ \A i \in 1..Len(next_population_) : next_population_[i].evals = 0

\* The fitnesses the evaluation step of the running iterate() returns when it
\* appends k of them, in the order of the buffer.
returned_fitness(k) ==
  IF kind = "single" THEN single_fitness(next_population_)
  ELSE multi_fitness(next_population_, k)

\* q holds the elements of p in some order.
same_solutions(p, q) ==
  /\ Len(p) = Len(q)
  /\ \E f \in Permutations(1..Len(p)) : \A i \in 1..Len(p) : q[i] = p[f[i]]

\* C16: a returning iterate() leaves slots [0, elite_count) as they were
\* before sort_population and writes into slot elite_count + i the i-th
\* buffered offspring with the i-th fitness returned by this iterate(): the
\* population afterwards is, in some order, the old elite prefix followed by
\* these N - elite_count new solutions.
C16_ReplacementFrame ==
  [][(evaluation_step /\ result' = "iterated") =>
       LET fits == returned_fitness(appended')
           n == Len(next_population_)
           written ==
             [i \in 1..Len(population_) |->
                IF i <= elite_count_ THEN population_[i]
                ELSE IF i - elite_count_ <= Min(n, Len(fits))
                     THEN solution(next_population_[i - elite_count_].x,
                                   fits[i - elite_count_],
                                   IF kind = "single" THEN 1 ELSE 0)
                     ELSE solution(0, -1, 0)]
       IN same_solutions(written, population_')]_vars

\* C17: an evaluation step that changes the size of the population makes the
\* operation raise the fatal error: iterate() throws when the population has
\* another length after the evaluation step than before, and no engine is
\* constructed when the first evaluation added to the still empty population.
C17_ResizeRaisesFatalError ==
  [][/\ (pc = "loop" /\ pc' = "idle" /\ Len(population_') # Len(population_)) =>
          result' = "runtime_error"
     /\ (pc = "new" /\ evaluate_resized') =>
          (pc' = "ctor_failed" /\ result' = "ctor_runtime_error")]_vars

\* Both cases happen: an iterate() has thrown on a resized population, and
\* (in another run) a constructor has thrown on a first evaluation that added
\* a solution while returning the right number of fitnesses.
C17_Witness ==
  \/ /\ pc = "idle"
     /\ result = "runtime_error"
     /\ Len(population_) # size0
     /\ appended = Len(next_population_)
  \/ /\ pc = "ctor_failed"
     /\ result = "ctor_runtime_error"
     /\ evaluate_resized
     /\ appended = size0

C19_BuffersSurviveFatalError ==
  [][/\ (evaluation_step /\ result' = "runtime_error") =>
          /\ next_population_' = next_population_
          /\ Len(next_fitness_') = Len(next_fitness_) + appended'
          /\ SubSeq(next_fitness_', 1, Len(next_fitness_)) = next_fitness_
     /\ (pc = "loop" /\ result = "runtime_error") =>
          /\ pc' = "idle"
          /\ recombine_calls' = 0
          /\ individuals_given' = Len(next_population_)
     /\ (evaluation_step /\ result' = "iterated") =>
          /\ next_population_' = <<>>
          /\ next_fitness_' = <<>>]_vars

\* C20: in single-evaluation mode with a deterministic f every solution of
\* the population carries the fitness f of its own genotype, after the
\* construction and after every iterate() call.
C20_FitnessBelongsToGenotype ==
  (kind = "single" /\ constructed) =>
    \A i \in 1..Len(population_) :
      population_[i].fitness = evaluate(population_[i].x)

\* A single-evaluation engine has iterated and holds two solutions with
\* different fitnesses: a mispairing of the two would show.
C20_Witness ==
  /\ kind = "single"
  /\ pc = "idle"
  /\ result = "iterated"
  /\ elite_count_ = 0
  /\ Len(population_) = 2
  /\ population_[1].fitness # population_[2].fitness

=============================================================================
